---- MODULE Spec2Model ----
(***************************************************************************)
(* The script generation-and-repair pipeline of ScriptBuilder              *)
(* (src/backend/script/script_builder.py): request construction, section   *)
(* planning (_plan_sections, _normalize_lengths, _refine_styles_with_ai),  *)
(* drafting (_draft_sections) and voice-line assembly (_make_voice_lines). *)
(*                                                                         *)
(* Texts are sequences of one-character strings, so that str.strip,        *)
(* str.split and str.endswith are computed as Python computes              *)
(* them.  A Character is represented by its name.  The replies of the      *)
(* text-generation service are inputs chosen from bounded sets.            *)
(*                                                                         *)
(* Records carry the attribute names the builder reads and writes          *)
(* (c.name, voice_actor, text, s.m_metadata, s.m_script_text), which are   *)
(* not always the names the schema classes declare.  A section for which   *)
(* the drafting reply holds no entry keeps no narration (NoText); reading  *)
(* it in _make_voice_lines raises.                                         *)
(***************************************************************************)
EXTENDS Integers, Sequences, FiniteSets, TLC

VARIABLES
    pc,           \* position of the program
    req,          \* the BuildRequest, NoRequest before/without construction
    total,        \* _normalize_lengths' parameter `total`
    proposed,     \* plan.sections as the generation service returned it
    plans,        \* the list _normalize_lengths works on / returns (`fixed`)
    enum_styles,  \* the list _refine_styles_with_ai returns
    sections,     \* the sections handed from step to step of build()
    calls,        \* the generation calls made so far, in order
    error         \* the exception that ended the run, NoError otherwise

vars == <<pc, req, total, proposed, plans, enum_styles, sections, calls, error>>

(***************************************************************************)
(* Bounds of the model.                                                    *)
(***************************************************************************)
MaxSections == 3     \* sections in a plan given to _normalize_lengths
MaxLen == 3          \* largest proposed section length
MaxTotal == 4        \* largest target given to _normalize_lengths directly
MaxCast == 2         \* largest cast
MaxTextLen == 3      \* longest enumerated narration text
MaxLines == 2        \* most speaker-labelled line drafts of a section
MaxStyles == 3       \* longest style list the refinement pass returns
MaxPlanSections == 2 \* sections in a plan inside a whole build()

(***************************************************************************)
(* Sequence helpers.                                                       *)
(***************************************************************************)
Min(a, b) == IF a < b THEN a ELSE b

Max(a, b) == IF a > b THEN a ELSE b

Last(s) == s[Len(s)]

Front(s) == SubSeq(s, 1, Len(s) - 1)

RECURSIVE SeqsUpTo(_, _)
\* all sequences over S of length at most n
SeqsUpTo(S, n) ==
    IF n = 0 THEN {<<>>}
    ELSE LET shorter == SeqsUpTo(S, n - 1)
         IN  shorter \cup {Append(s, x) : s \in {t \in shorter : Len(t) = n - 1}, x \in S}

RECURSIVE SumLengths(_)
\* sum(p.length_s for p in plans)
SumLengths(ps) ==
    IF ps = <<>> THEN 0 ELSE ps[1].length_s + SumLengths(Tail(ps))

(***************************************************************************)
(* Sentinels.                                                              *)
(***************************************************************************)
NoRequest == [m_desired_length_s |-> 0, m_characters |-> <<>>,
              m_preferred_styles |-> <<>>, constructed |-> FALSE]

NoError == "none"

(***************************************************************************)
(* SectionPlan and the plans the generation service may return.            *)
(***************************************************************************)
\* MainPlan with the length floor in place of the target
MainPlanAtFloor(t) ==
    [index |-> 1, length_s |-> 1, title |-> "Main", talking_points |-> <<>>,
     presentation_style |-> "explanatory", web_search |-> FALSE]

\* The section _normalize_lengths makes "if something is off".
MainPlan(t) ==
    [index |-> 1, length_s |-> t, title |-> "Main", talking_points |-> <<>>,
     presentation_style |-> "explanatory", web_search |-> FALSE]

\* A proposed section: its length and index are free, the rest is fixed by its
\* position k in the reply (odd: a researched hook, even: a plain section).
ProposedPlan(k, idx, len) ==
    [index |-> idx, length_s |-> len,
     title |-> IF k % 2 = 1 THEN "Hook" ELSE "Value",
     talking_points |-> IF k % 2 = 1 THEN <<"point">> ELSE <<"first", "second">>,
     presentation_style |-> IF k % 2 = 1 THEN "Narrative" ELSE "vlog",
     web_search |-> (k % 2 = 1)]

\* The indices a reply may carry: right, or all the same.
PlanLists(maxN, lens) ==
    {[k \in 1..Len(ls) |-> ProposedPlan(k, IF same THEN 1 ELSE k, ls[k])] :
        ls \in SeqsUpTo(lens, maxN), same \in BOOLEAN}

(***************************************************************************)
(* _normalize_lengths (script_builder.py 290-313), one action per step.    *)
(***************************************************************************)
\* AdjustLast setting the last length to the difference alone
AdjustLastToDiff(ps, t) ==
    LET n == Len(ps)
        diff == t - SumLengths(ps)
    IN  [ps EXCEPT ![n].length_s = Max(1, diff)]

\* plans[-1].length_s = max(1, plans[-1].length_s + diff)
AdjustLast(ps, t) ==
    LET n == Len(ps)
        diff == t - SumLengths(ps)
    IN  [ps EXCEPT ![n].length_s = Max(1, ps[n].length_s + diff)]

\* the condition of the while loop
Overshoots(ps, t) == SumLengths(ps) > t /\ Len(ps) > 1

\* TrimOnce with the rest of the overflow taken from the first section
TrimOnceFromFirst(ps, t) ==
    LET n == Len(ps)
        overflow == SumLengths(ps) - t
        take == Min(overflow, ps[n].length_s - 1)
        trimmed == [ps EXCEPT ![n].length_s = ps[n].length_s - take]
    IN  IF take < overflow /\ n > 2
        THEN [trimmed EXCEPT ![1].length_s =
                  Max(1, trimmed[1].length_s - (overflow - take))]
        ELSE trimmed

\* one pass through the body of the while loop
TrimOnce(ps, t) ==
    LET n == Len(ps)
        overflow == SumLengths(ps) - t
        take == Min(overflow, ps[n].length_s - 1)
        trimmed == [ps EXCEPT ![n].length_s = ps[n].length_s - take]
    IN  IF take < overflow /\ n > 2
        THEN [trimmed EXCEPT ![n - 1].length_s =
                  Max(1, trimmed[n - 1].length_s - (overflow - take))]
        ELSE trimmed

\* for i, p in enumerate(plans, start=1): p.index = i
Reindex(ps) == [i \in 1..Len(ps) |-> [ps[i] EXCEPT !.index = i]]

\* lines 292-302: the two early returns, else the adjustment of the last section
NormalizeEnter ==
    /\ pc = "normalize"
    /\ IF plans = <<>>
       THEN /\ pc' = "normalized"
            /\ UNCHANGED plans
       ELSE IF SumLengths(plans) = 0
       THEN /\ pc' = "normalized"
            /\ plans' = <<MainPlan(total)>>
       ELSE /\ pc' = "while"
            /\ plans' = AdjustLast(plans, total)
    /\ UNCHANGED <<req, total, proposed, enum_styles, sections, calls, error>>

\* line 304: the loop condition holds, control enters the body
NormalizeWhile ==
    /\ pc = "while"
    /\ Overshoots(plans, total)
    /\ pc' = "trim"
    /\ UNCHANGED <<req, total, proposed, plans, enum_styles, sections, calls, error>>

\* lines 305-309: the body runs once, control returns to the condition
NormalizeTrim ==
    /\ pc = "trim"
    /\ plans' = TrimOnce(plans, total)
    /\ pc' = "while"
    /\ UNCHANGED <<req, total, proposed, enum_styles, sections, calls, error>>

\* lines 304, 310-313: the loop condition fails; reindex and return
NormalizeReturn ==
    /\ pc = "while"
    /\ ~Overshoots(plans, total)
    /\ plans' = Reindex(plans)
    /\ pc' = "normalized"
    /\ UNCHANGED <<req, total, proposed, enum_styles, sections, calls, error>>

\* _normalize_lengths called on its own, on any bounded list and target
InitNormalize ==
    /\ pc = "normalize"
    /\ req = NoRequest
    /\ total \in 1..MaxTotal
    /\ proposed \in PlanLists(MaxSections, 0..MaxLen)
    /\ plans = proposed
    /\ enum_styles = <<>>
    /\ sections = <<>>
    /\ calls = <<>>
    /\ error = NoError

NextNormalize == NormalizeEnter \/ NormalizeWhile \/ NormalizeTrim \/ NormalizeReturn

SpecNormalize == InitNormalize /\ [][NextNormalize]_vars

\* The interpreter runs the next statement of a running call.
FairSpecNormalize == SpecNormalize /\ WF_vars(NextNormalize)

(***************************************************************************)
(* Texts: Python's str operations on sequences of characters.              *)
(***************************************************************************)
Whitespace == {" ", "\t", "\n"}

Period == "."

\* Optional[str] None, and the text of a section no draft was written for
NoneStr == <<"None">>

NoText == <<"unset">>

RECURSIVE LStrip(_)
LStrip(s) == IF s # <<>> /\ s[1] \in Whitespace THEN LStrip(Tail(s)) ELSE s

RECURSIVE RStrip(_)
RStrip(s) == IF s # <<>> /\ Last(s) \in Whitespace THEN RStrip(Front(s)) ELSE s

\* str.strip()
Strip(s) == RStrip(LStrip(s))

RECURSIVE Split(_, _)
\* str.split(sep) for a one-character separator: every piece, empty ones too
Split(s, sep) ==
    IF \A i \in 1..Len(s) : s[i] # sep THEN <<s>>
    ELSE LET i == CHOOSE k \in 1..Len(s) :
                      s[k] = sep /\ \A j \in 1..(k - 1) : s[j] # sep
         IN  <<SubSeq(s, 1, i - 1)>> \o Split(SubSeq(s, i + 1, Len(s)), sep)

\* str.endswith(c) for a one-character suffix
EndsWith(s, c) == s # <<>> /\ Last(s) = c

(***************************************************************************)
(* The cast, and the drafts the generation service may return.             *)
(***************************************************************************)
Host == <<"H", "o", "s", "t">>

Guest == <<"G", "u", "e", "s", "t">>

CastPool == <<Host, Guest, <<"N", "a", "r", "r", "a", "t", "o", "r">>,
              <<"E", "x", "p", "e", "r", "t">>>>

Casts == {SubSeq(CastPool, 1, n) : n \in 0..Min(MaxCast, Len(CastPool))}

\* speaker labels: a cast name, a padded cast name, a stranger, none, blank
LinePool ==
    {[voice_actor |-> Host, text |-> <<"a">>],
     [voice_actor |-> <<" ", "G", "u", "e", "s", "t", " ">>, text |-> <<"a", ".">>],
     [voice_actor |-> <<"B", "o", "b">>, text |-> <<"a">>],
     [voice_actor |-> NoneStr, text |-> <<" ", "a">>],
     [voice_actor |-> <<" ">>, text |-> <<"a">>]}

LineLists == SeqsUpTo(LinePool, MaxLines)

HelloNarration ==
    <<"H", "e", "l", "l", "o", " ", "t", "h", "e", "r", "e", ".", " ",
      "H", "o", "w", " ", "a", "r", "e", " ", "y", "o", "u", "?", " ",
      "I", "'", "m", " ", "f", "i", "n", "e", ".">>

ThreeSentences ==
    <<"O", "n", "e", ".", " ", "T", "w", "o", ".", " ", "T", "h", "r", "e", "e", ".">>

Narrations == SeqsUpTo({"a", ".", " "}, MaxTextLen) \cup {HelloNarration, ThreeSentences}

(***************************************************************************)
(* _make_voice_lines (script_builder.py 198-235).                          *)
(***************************************************************************)
\* by_name.get(name): the Character of that name, None without one
ByNameGet(cast, name) ==
    IF \E i \in 1..Len(cast) : cast[i] = name THEN name ELSE NoneStr

\* solo = req.m_characters[0] if len(req.m_characters) == 1 else None
Solo(cast) == IF Len(cast) = 1 THEN cast[1] ELSE NoneStr

\* ResolveActor without the fallbacks: an unmatched label is kept as the speaker
ResolveActorKeepsLabel(cast, ln) ==
    LET label == IF ln.voice_actor = NoneStr THEN <<>> ELSE ln.voice_actor
        found == ByNameGet(cast, Strip(label))
    IN  [err |-> NoError, actor |-> IF found = NoneStr THEN Strip(label) ELSE found]

\* ResolveActor looking the label up as it is, without strip()
ResolveActorUntrimmed(cast, ln) ==
    LET label == IF ln.voice_actor = NoneStr THEN <<>> ELSE ln.voice_actor
        found == ByNameGet(cast, label)
        actor == IF found = NoneStr /\ Solo(cast) # NoneStr THEN Solo(cast) ELSE found
    IN  IF actor # NoneStr THEN [err |-> NoError, actor |-> actor]
        ELSE IF cast = <<>> THEN [err |-> "IndexError", actor |-> NoneStr]
        ELSE [err |-> NoError, actor |-> cast[1]]

\* lines 209-214: the speaker of a draft line; cast[0] of an empty cast raises
ResolveActor(cast, ln) ==
    LET label == IF ln.voice_actor = NoneStr THEN <<>> ELSE ln.voice_actor
        found == ByNameGet(cast, Strip(label))
        actor == IF found = NoneStr /\ Solo(cast) # NoneStr THEN Solo(cast) ELSE found
    IN  IF actor # NoneStr THEN [err |-> NoError, actor |-> actor]
        ELSE IF cast = <<>> THEN [err |-> "IndexError", actor |-> NoneStr]
        ELSE [err |-> NoError, actor |-> cast[1]]

\* Sentences cutting at question marks as well as at periods
SentencesAtMarks(text) ==
    LET marked == [i \in 1..Len(text) |-> IF text[i] = "?" THEN Period ELSE text[i]]
        pieces == Split(marked, Period)
        stripped == [i \in 1..Len(pieces) |-> Strip(pieces[i])]
        kept == SelectSeq(stripped, LAMBDA seg : seg # <<>>)
    IN  IF kept = <<>> THEN <<text>> ELSE kept

\* line 222-224: the stripped non-empty pieces between periods, else the text
Sentences(text) ==
    LET pieces == Split(text, Period)
        stripped == [i \in 1..Len(pieces) |-> Strip(pieces[i])]
        kept == SelectSeq(stripped, LAMBDA seg : seg # <<>>)
    IN  IF kept = <<>> THEN <<text>> ELSE kept

\* RoundRobin counting the sentences from 1 instead of 0
RoundRobinFromOne(cast, sents) ==
    [i \in 1..Len(sents) |->
        [voice_actor |-> cast[(i % Len(cast)) + 1],
         text |-> IF EndsWith(sents[i], Period) THEN sents[i]
                  ELSE sents[i] \o <<Period>>]]

\* lines 225-229: sentence i goes to cast member i mod len(cast)
RoundRobin(cast, sents) ==
    [i \in 1..Len(sents) |->
        [voice_actor |-> cast[((i - 1) % Len(cast)) + 1],
         text |-> IF EndsWith(sents[i], Period) THEN sents[i]
                  ELSE sents[i] \o <<Period>>]]

\* lines 204-229 for one section: its voice lines, or the exception raised
SectionVoiceLines(cast, s) ==
    IF s.draft_lines # <<>>
    THEN LET res == [i \in 1..Len(s.draft_lines) |-> ResolveActor(cast, s.draft_lines[i])]
         IN  IF \E i \in 1..Len(res) : res[i].err # NoError
             THEN [err |-> "IndexError", lines |-> <<>>]
             ELSE [err |-> NoError,
                   lines |-> [i \in 1..Len(res) |->
                                 [voice_actor |-> res[i].actor,
                                  text |-> s.draft_lines[i].text]]]
    ELSE IF s.m_script_text = NoText
    THEN [err |-> "AttributeError", lines |-> <<>>]
    ELSE IF Solo(cast) # NoneStr
    THEN [err |-> NoError,
          lines |-> <<[voice_actor |-> Solo(cast), text |-> s.m_script_text]>>]
    ELSE IF cast = <<>>
    THEN [err |-> "ZeroDivisionError", lines |-> <<>>]
    ELSE [err |-> NoError, lines |-> RoundRobin(cast, Sentences(s.m_script_text))]

\* the for loop over the sections: it stops at the first exception
VoiceAll(cast, secs) ==
    LET out == [i \in 1..Len(secs) |-> SectionVoiceLines(cast, secs[i])]
        bad == {i \in 1..Len(secs) : out[i].err # NoError}
        stop == IF bad = {} THEN Len(secs) + 1
                ELSE CHOOSE i \in bad : \A j \in bad : i <= j
    IN  [err |-> IF bad = {} THEN NoError ELSE out[stop].err,
         sections |-> [i \in 1..Len(secs) |->
                          IF i < stop
                          THEN [secs[i] EXCEPT !.voice_lines = out[i].lines,
                                               !.draft_lines = <<>>]
                          ELSE secs[i]]]

MakeVoiceLines ==
    /\ pc = "voice"
    /\ LET res == VoiceAll(req.m_characters, sections)
       IN  /\ sections' = res.sections
           /\ error' = res.err
           /\ pc' = IF res.err = NoError THEN "assemble" ELSE "failed"
    /\ UNCHANGED <<req, total, proposed, plans, enum_styles, calls>>

(***************************************************************************)
(* BuildRequest (build_script_request.py 6-27).                            *)
(***************************************************************************)
\* m_desired_length_s: conint(gt=10)
DurationFloor == 10

\* PresentationStyle, in declaration order
PresentationStyle == <<"narrative", "explanatory", "listicle", "debate", "interview", "news">>

EXPLANATORY == PresentationStyle[2]

\* m_preferred_styles: None, or a list of styles
AllowLists == {NoneStr, <<"narrative">>, <<"news", "debate">>}

\* The field constraints pydantic enforces: the duration bound is the only one.
\* m_characters is a plain List[Character]; names_match_count is registered for
\* "actor_names", which is no field of the request, so it checks nothing.
Validates(r) == r.m_desired_length_s > DurationFloor

\* durations asked for: none, the bound itself, the first one above it
Durations == {0, DurationFloor, DurationFloor + 1}

RequestInputs ==
    [m_desired_length_s : Durations, m_characters : Casts,
     m_preferred_styles : AllowLists, constructed : {TRUE}]

\* BuildRequest(**data)
Construct(r) ==
    /\ pc = "construct"
    /\ IF Validates(r)
       THEN /\ req' = r
            /\ pc' = "plan"
            /\ UNCHANGED error
       ELSE /\ error' = "ValidationError"
            /\ pc' = "rejected"
            /\ UNCHANGED req
    /\ UNCHANGED <<total, proposed, plans, enum_styles, sections, calls>>

(***************************************************************************)
(* _plan_sections (script_builder.py 72-137).                              *)
(***************************************************************************)
\* lines 72-120: the planning call, whose reply goes to _normalize_lengths
PlanCall(reply) ==
    /\ pc = "plan"
    /\ total' = req.m_desired_length_s
    /\ proposed' = reply
    /\ plans' = reply
    /\ calls' = Append(calls, "plan")
    /\ pc' = "normalize"
    /\ UNCHANGED <<req, enum_styles, sections, error>>

\* AlignStyles with the padding in front of the reply
AlignStylesPadsInFront(styles, n) ==
    IF Len(styles) # n
    THEN SubSeq([i \in 1..n |-> EXPLANATORY] \o styles, 1, n)
    ELSE styles

\* lines 285-288: (styles + [EXPLANATORY] * n)[:n] when the lengths differ
AlignStyles(styles, n) ==
    IF Len(styles) # n
    THEN SubSeq(styles \o [i \in 1..n |-> EXPLANATORY], 1, n)
    ELSE styles

\* lines 124-137: zip(fixed, enum_styles) into section metadata
Materialize(r, fixed, styles) ==
    [i \in 1..Min(Len(fixed), Len(styles)) |->
        [m_metadata |->
            [m_web_search |-> fixed[i].web_search,
             m_index |-> fixed[i].index,
             m_length_s |-> fixed[i].length_s,
             m_character_participants |-> r.m_characters,
             m_title |-> fixed[i].title,
             m_talking_points |-> fixed[i].talking_points,
             m_presentation_style |-> styles[i]],
         m_script_text |-> NoText,
         draft_lines |-> <<>>,
         voice_lines |-> <<>>]]

\* lines 121-137: the style refinement call, then the section metadata
RefineStyles(reply) ==
    /\ pc = "normalized"
    /\ enum_styles' = AlignStyles(reply, Len(plans))
    /\ sections' = Materialize(req, plans, enum_styles')
    /\ calls' = Append(calls, "styles")
    /\ pc' = "draft"
    /\ UNCHANGED <<req, total, proposed, plans, error>>

\* replies of the refinement pass: n styles in enum order from some start
StyleReplies ==
    {[i \in 1..n |-> PresentationStyle[((start + i - 2) % Len(PresentationStyle)) + 1]] :
        start \in 1..Len(PresentationStyle), n \in 0..MaxStyles}

(***************************************************************************)
(* _draft_sections (script_builder.py 140-195).                            *)
(***************************************************************************)
\* by_idx.get(idx): the last draft of that index, if any
HasDraft(drafts, idx) == \E k \in 1..Len(drafts) : drafts[k].m_index = idx

DraftFor(drafts, idx) ==
    drafts[CHOOSE k \in 1..Len(drafts) :
               /\ drafts[k].m_index = idx
               /\ \A j \in (k + 1)..Len(drafts) : drafts[j].m_index # idx]

\* lines 186-195
ApplyDrafts(secs, drafts) ==
    [i \in 1..Len(secs) |->
        IF HasDraft(drafts, secs[i].m_metadata.m_index)
        THEN LET d == DraftFor(drafts, secs[i].m_metadata.m_index)
             IN  [secs[i] EXCEPT !.m_script_text = d.m_script_text,
                                 !.draft_lines = d.lines]
        ELSE secs[i]]

\* one drafting call for all the sections
DraftSections(reply) ==
    /\ pc = "draft"
    /\ sections' = ApplyDrafts(sections, reply)
    /\ calls' = Append(calls, "draft")
    /\ pc' = "voice"
    /\ UNCHANGED <<req, total, proposed, plans, enum_styles, error>>

\* build(), line 51-52
Assemble ==
    /\ pc = "assemble"
    /\ pc' = "done"
    /\ UNCHANGED <<req, total, proposed, plans, enum_styles, sections, calls, error>>

(***************************************************************************)
(* The replies enumerated inside a whole build().                          *)
(***************************************************************************)
\* proposed lengths: nothing, the floor, the whole target
PlanReplies(t) == PlanLists(MaxPlanSections, {0, 1, t})

DraftPool ==
    {[m_script_text |-> <<"a", ".", "a">>, lines |-> <<>>],
     [m_script_text |-> <<"a", ".">>,
      lines |-> <<[voice_actor |-> <<"B", "o", "b">>, text |-> <<"a">>]>>]}

\* a draft for each of the first k sections
DraftReplies(n) ==
    UNION {{[i \in 1..k |-> [m_index |-> i, m_script_text |-> ds[i].m_script_text,
                             lines |-> ds[i].lines]] :
               ds \in [1..k -> DraftPool]} : k \in 0..n}

(***************************************************************************)
(* build() (script_builder.py 38-52), from the request on.                 *)
(***************************************************************************)
Init ==
    /\ pc = "construct"
    /\ req = NoRequest
    /\ total = 0
    /\ proposed = <<>>
    /\ plans = <<>>
    /\ enum_styles = <<>>
    /\ sections = <<>>
    /\ calls = <<>>
    /\ error = NoError

\* the inputs of a step are enumerated only where the step can be taken
Next ==
    \/ pc = "construct" /\ \E r \in RequestInputs : Construct(r)
    \/ pc = "plan" /\ \E reply \in PlanReplies(req.m_desired_length_s) : PlanCall(reply)
    \/ NormalizeEnter
    \/ NormalizeWhile
    \/ NormalizeTrim
    \/ NormalizeReturn
    \/ pc = "normalized" /\ \E reply \in StyleReplies : RefineStyles(reply)
    \/ pc = "draft" /\ \E reply \in DraftReplies(Len(sections)) : DraftSections(reply)
    \/ MakeVoiceLines
    \/ Assemble

Spec == Init /\ [][Next]_vars

(***************************************************************************)
(* _draft_sections and _make_voice_lines on one planned section, for every *)
(* bounded draft.                                                          *)
(***************************************************************************)
VoiceDrafts ==
    {<<>>} \cup
    {<<[m_index |-> i, m_script_text |-> t, lines |-> ls]>> :
        i \in 1..2, t \in Narrations, ls \in LineLists}

\* the state after _plan_sections returned its one "Main" section
InitVoice ==
    /\ pc = "draft"
    /\ req \in {r \in RequestInputs :
                   /\ r.m_desired_length_s = DurationFloor + 1
                   /\ r.m_preferred_styles = NoneStr}
    /\ total = req.m_desired_length_s
    /\ proposed = <<ProposedPlan(1, 1, 0)>>
    /\ plans = <<MainPlan(total)>>
    /\ enum_styles = <<EXPLANATORY>>
    /\ sections = Materialize(req, plans, enum_styles)
    /\ calls = <<"plan", "styles">>
    /\ error = NoError

NextVoice ==
    \/ pc = "draft" /\ \E reply \in VoiceDrafts : DraftSections(reply)
    \/ MakeVoiceLines

SpecVoice == InitVoice /\ [][NextVoice]_vars

(***************************************************************************)
(* The tail of _refine_styles_with_ai (script_builder.py 283-288) alone:   *)
(* enum_styles starts as the reply (the local `styles` of line 283) and    *)
(* plans as a normalized list of 0..MaxSections sections.                  *)
(***************************************************************************)
\* the lists _normalize_lengths returns for plans of 1-second sections
NormalizedPlans(t) ==
    {IF ps = <<>> THEN ps ELSE Reindex(AdjustLast(ps, t)) :
        ps \in PlanLists(MaxSections, {1})}

InitRefine ==
    /\ pc = "refine"
    /\ req \in {r \in RequestInputs :
                   /\ r.m_desired_length_s = DurationFloor + 1
                   /\ r.m_preferred_styles = NoneStr}
    /\ total = req.m_desired_length_s
    /\ plans \in NormalizedPlans(total)
    /\ proposed = plans
    /\ enum_styles \in StyleReplies
    /\ sections = <<>>
    /\ calls = <<"plan", "styles">>
    /\ error = NoError

\* lines 285-288, then the zip of lines 124-137
RefineAlign ==
    /\ pc = "refine"
    /\ enum_styles' = AlignStyles(enum_styles, Len(plans))
    /\ sections' = Materialize(req, plans, enum_styles')
    /\ pc' = "draft"
    /\ UNCHANGED <<req, total, proposed, plans, calls, error>>

NextRefine == RefineAlign

SpecRefine == InitRefine /\ [][NextRefine]_vars

(***************************************************************************)
(* Properties.                                                             *)
(***************************************************************************)
Range(s) == {s[i] : i \in 1..Len(s)}

AllZero(ps) == \A i \in 1..Len(ps) : ps[i].length_s = 0

\* C1: when _normalize_lengths returns on a non-empty list and a target > 0,
\* the returned lengths sum to the target, every returned length is at least
\* 1, and the returned indices are 1..N in list order.
NormalizedIsValid ==
    (pc = "normalized" /\ proposed # <<>>) =>
        /\ SumLengths(plans) = total
        /\ \A i \in 1..Len(plans) : plans[i].length_s >= 1 /\ plans[i].index = i

\* C2: on every non-empty list and every target that is at least the number
\* of sections, _normalize_lengths terminates: its loop always exits and it
\* returns.
NormalizeTerminates ==
    (pc = "normalize" /\ plans # <<>> /\ total >= Len(plans)) ~> (pc = "normalized")

\* C3: _plan_sections never returns an empty list, and when the planning call
\* returns zero sections it returns exactly one section titled "Main" whose
\* length is the whole target duration.
PlanIsNeverEmpty ==
    (pc = "draft") =>
        /\ sections # <<>>
        /\ proposed = <<>> =>
              /\ Len(sections) = 1
              /\ sections[1].m_metadata.m_title = "Main"
              /\ sections[1].m_metadata.m_length_s = req.m_desired_length_s

\* C4: with a non-empty allow-list of styles in the request, the style of
\* every section _plan_sections returns is a member of the allow-list.
StylesWithinAllowList ==
    (pc = "draft" /\ req.m_preferred_styles # NoneStr /\ req.m_preferred_styles # <<>>) =>
        \A i \in 1..Len(sections) :
            sections[i].m_metadata.m_presentation_style \in Range(req.m_preferred_styles)

RECURSIVE JoinSpace(_)
\* the texts joined by single spaces
JoinSpace(ts) ==
    IF ts = <<>> THEN <<>>
    ELSE IF Len(ts) = 1 THEN ts[1]
    ELSE ts[1] \o <<" ">> \o JoinSpace(Tail(ts))

VoiceTexts(s) == [k \in 1..Len(s.voice_lines) |-> s.voice_lines[k].text]

VoiceActors(s) == [k \in 1..Len(s.voice_lines) |-> s.voice_lines[k].voice_actor]

\* C5: after _draft_sections and _make_voice_lines, the narration text of
\* every section equals the space-joined texts of its voice lines, in order.
NarrationIsJoinOfLines ==
    (pc = "assemble") =>
        \A i \in 1..Len(sections) :
            sections[i].m_script_text = JoinSpace(VoiceTexts(sections[i]))

\* a section that was given non-empty narration or a non-empty draft list
GivenText(s) ==
    s.draft_lines # <<>> \/ (s.m_script_text # NoText /\ s.m_script_text # <<>>)

HelloCase ==
    /\ pc = "voice"
    /\ req.m_characters = <<Host, Guest>>
    /\ Len(sections) = 1
    /\ sections[1].draft_lines = <<>>
    /\ sections[1].m_script_text = HelloNarration

RequestConstraintsEnforced ==
    (pc \notin {"construct", "rejected"}) =>
        /\ req.m_desired_length_s > 0
        /\ Len(req.m_characters) >= 1

\* C9: on a list of any size N >= 1 whose proposed lengths are all zero,
\* _normalize_lengths returns exactly one section, with index 1, the target
\* as its length, the title "Main" and no talking points.
AllZeroCollapses ==
    (pc = "normalized" /\ proposed # <<>> /\ AllZero(proposed)) =>
        /\ Len(plans) = 1
        /\ plans[1].index = 1
        /\ plans[1].length_s = total
        /\ plans[1].title = "Main"
        /\ plans[1].talking_points = <<>>

\* C9 witness: a list of two zero-length sections was normalized to a target
\* above 1.
AllZeroSeen ==
    /\ pc = "normalized"
    /\ Len(proposed) = 2
    /\ AllZero(proposed)
    /\ total > 1

\* The period-delimited segments of a text, read off its positions: a run
\* lies between two neighbouring cuts (a period or an end of the text), and
\* counts when it holds a character that is no whitespace.
Cuts(text) == {0, Len(text) + 1} \cup {i \in 1..Len(text) : text[i] = Period}

Inked(text, a, b) == {j \in (a + 1)..(b - 1) : text[j] \notin Whitespace}

Runs(text) ==
    {r \in Cuts(text) \X Cuts(text) :
        /\ r[1] < r[2]
        /\ \A c \in Cuts(text) : ~(r[1] < c /\ c < r[2])
        /\ Inked(text, r[1], r[2]) # {}}

\* the k-th run, trimmed to its first and last inked character
SegmentAt(text, k) ==
    LET r == CHOOSE x \in Runs(text) :
                 Cardinality({y \in Runs(text) : y[1] < x[1]}) = k - 1
        ink == Inked(text, r[1], r[2])
        lo == CHOOSE j \in ink : \A m \in ink : j <= m
        hi == CHOOSE j \in ink : \A m \in ink : j >= m
    IN  SubSeq(text, lo, hi)

TrimmedLabel(label) ==
    LET ink == IF label = NoneStr THEN {}
               ELSE {j \in 1..Len(label) : label[j] \notin Whitespace}
    IN  IF ink = {} THEN <<>>
        ELSE SubSeq(label, CHOOSE j \in ink : \A m \in ink : j <= m,
                           CHOOSE j \in ink : \A m \in ink : j >= m)

\* the speaker C11 names for a label
NamedSpeaker(cast, label) ==
    IF TrimmedLabel(label) \in Range(cast) THEN TrimmedLabel(label)
    ELSE IF Len(cast) = 1 THEN cast[1]
    ELSE cast[1]

AlignedToSectionCount ==
    [][pc = "refine" =>
          LET reply == enum_styles
              n == Len(plans)
          IN  /\ pc' = "draft"
              /\ error' = NoError
              /\ Len(enum_styles') = n
              /\ \A i \in 1..n :
                    enum_styles'[i] =
                        IF i <= Len(reply) THEN reply[i] ELSE "explanatory"
              /\ Len(sections') = n]_vars

\* C12 witness: three sections whose styles are "narrative" followed by two
\* paddings, which only a reply shorter than three aligns to.
AlignedToSectionCountSeen ==
    /\ pc = "draft"
    /\ Len(plans) = 3
    /\ enum_styles = <<"narrative", "explanatory", "explanatory">>
    /\ sections[3].m_metadata.m_presentation_style = "explanatory"

\* the lengths of a list of plans, in order
LengthsOf(ps) == [i \in 1..Len(ps) |-> ps[i].length_s]

\* C13: for an input with a non-zero proposed sum, normalization keeps the
\* number and order of the sections, changes no length but the last and the
\* second-to-last, and changes no title, talking points, style hint or
\* research flag.
LastBiasedRepair ==
    (proposed # <<>> /\ SumLengths(proposed) # 0) =>
        /\ Len(plans) = Len(proposed)
        /\ \A i \in 1..Len(proposed) :
              /\ i < Len(proposed) - 1 => plans[i].length_s = proposed[i].length_s
              /\ plans[i].title = proposed[i].title
              /\ plans[i].talking_points = proposed[i].talking_points
              /\ plans[i].presentation_style = proposed[i].presentation_style
              /\ plans[i].web_search = proposed[i].web_search

\* C13 witness: lengths 1, 3, 1 against a target of 4 came back as 1, 2, 1: the
\* second-to-last section absorbed the overflow and the first kept its length.
LastBiasedRepairSeen ==
    /\ pc = "normalized"
    /\ total = 4
    /\ LengthsOf(proposed) = <<1, 3, 1>>
    /\ LengthsOf(plans) = <<1, 2, 1>>

\* the positions of the composition calls among the generation calls
DraftCalls == {k \in 1..Len(calls) : calls[k] = "draft"}

\* C14: a build whose plan has N sections makes exactly N composition calls,
\* one per section, all of them after the outline call and the style call of
\* the planning phase.  Stated for plans that have sections.
OneCallPerSection ==
    (pc \in {"voice", "assemble", "done", "failed"} /\ sections # <<>>) =>
        /\ Cardinality(DraftCalls) = Len(sections)
        /\ \A k \in DraftCalls :
              \E i, j \in 1..(k - 1) : calls[i] = "plan" /\ calls[j] = "styles"

\* the index fields of a list of plans, in order
IndicesOf(ps) == [i \in 1..Len(ps) |-> ps[i].index]

\* every proposed length is at least 1 and the lengths sum to the target
ValidInput(ps, t) ==
    /\ ps # <<>>
    /\ \A i \in 1..Len(ps) : ps[i].length_s >= 1
    /\ SumLengths(ps) = t

\* a second application to a returned list: whether it gets past the loop
\* without entering it, and the list it then returns
Reapplied(ps, t) ==
    IF ps = <<>> THEN [direct |-> TRUE, plans |-> ps]
    ELSE IF SumLengths(ps) = 0 THEN [direct |-> TRUE, plans |-> <<MainPlan(t)>>]
    ELSE [direct |-> ~Overshoots(AdjustLast(ps, t), t),
          plans |-> Reindex(AdjustLast(ps, t))]

\* C15: on valid input (every length at least 1, lengths summing to the
\* target) the returned lengths are the proposed ones; and whenever the
\* function returns, applying it again with the same target returns the same
\* lengths and indices.
NormalizeIsIdempotent ==
    (pc = "normalized") =>
        /\ ValidInput(proposed, total) => LengthsOf(plans) = LengthsOf(proposed)
        /\ Reapplied(plans, total).direct
        /\ LengthsOf(Reapplied(plans, total).plans) = LengthsOf(plans)
        /\ IndicesOf(Reapplied(plans, total).plans) = IndicesOf(plans)

\* C15 witness: lengths 1, 1, 2 with all indices 1 against a target of 4 came
\* back with the same lengths and the indices 1, 2, 3.
NormalizeIsIdempotentSeen ==
    /\ pc = "normalized"
    /\ total = 4
    /\ LengthsOf(proposed) = <<1, 1, 2>>
    /\ IndicesOf(proposed) = <<1, 1, 1>>
    /\ LengthsOf(plans) = <<1, 1, 2>>
    /\ IndicesOf(plans) = <<1, 2, 3>>

====
